---------------------------- MODULE Spec2Model ----------------------------
(***************************************************************************)
(* A model of src/jotdown/ui.py: the constrained editor (Editor.input),    *)
(* the two-option menu (Menu.select), the spinner (Animation.load) and     *)
(* the line prompt (CLI.input).                                            *)
(*                                                                         *)
(* One behaviour is one run of the caller: starting from a constructed     *)
(* Editor object it either selects a mode in the menu, or runs one editor  *)
(* session, or calls the spinner or the line prompt directly; the Editor   *)
(* object is finalised                                                     *)
(* (__del__) whenever the caller drops it.  Every blocking read            *)
(* (window.getch) is the boundary between two steps.  The spinner's loop   *)
(* has no read in it and runs to completion inside the step that calls it. *)
(*                                                                         *)
(* Characters are modelled as one-character strings; the control           *)
(* characters that TLA+ cannot write are spelled in caret notation         *)
(* ("^[" is chr(27), "^?" is chr(127)) and the non-ASCII ones by their     *)
(* code point ("U+0104" is chr(260)).  A pane is the sequence of addstr    *)
(* calls made on it since it was last cleared.  The text pane never wraps  *)
(* or overflows within the bounds below (fewer keys than its 100 columns   *)
(* and fewer newlines than its 15 rows), so its geometry is reduced to     *)
(* the cursor row.                                                         *)
(***************************************************************************)
EXTENDS Integers, Sequences, FiniteSets, TLC

VARIABLES
    pc,               \* where the caller is: "idle", "editor_getch", "editor_done",
                      \* "editor_raised", "menu_getch", "menu_done", "load_done",
                      \* "cli_prompt", "cli_done"
    alive,            \* the Editor object has not been finalised
    term_restored,    \* how many times nocbreak/echo/endwin ran (Editor.__del__)
    sessions_ended,   \* how many Editor.input calls have returned or raised
    cursor,           \* curses.curs_set state: 1 visible, 0 hidden
    curs_shown,       \* how many times curs_set(1) was called
    \* Editor.input
    keys,             \* the codes self.get() has returned in this session
    target_words, words_count, escape_counter, text,
    win_texteditor,   \* glyphs written at the cursor of the text pane
    cur_y,            \* cursor row of the text pane
    win_counter,      \* addstr calls on the counter pane since its last clear
    win_msg,          \* addstr calls on the message pane since its last clear
    shown,            \* what the last refresh of the counter and message panes put on screen
    \* Menu.select
    mkeys,            \* the codes stdscr.getch() has returned
    position,
    stdscr,           \* attribute of each label as last drawn
    \* Animation.load
    rounds,           \* the rounds argument of the call
    yx,               \* cursor row captured at entry
    drawn,            \* the frames drawn: <<row, col, string>>
    \* CLI.input
    user_input, count,
    responses,        \* what the prompt has returned in this call
    result            \* what the finished call returned

vars == <<pc, alive, term_restored, sessions_ended, cursor, curs_shown, keys,
          target_words, words_count, escape_counter, text, win_texteditor,
          cur_y, win_counter, win_msg, shown, mkeys, position, stdscr, rounds, yx,
          drawn, user_input, count, responses, result>>

editorVars == <<keys, target_words, words_count, escape_counter, text,
                win_texteditor, cur_y, win_counter, win_msg, shown>>
menuVars == <<mkeys, position, stdscr>>
loadVars == <<rounds, yx, drawn>>
cliVars == <<user_input, count, responses>>

-----------------------------------------------------------------------------
(* Bounds of the exploration *)

\* A session is typed freely (any key of Keys) for its first MaxFree keystrokes.
MaxFree == 5
\* Longer sessions go on with the keys of LongKeys only, up to MaxKeys keystrokes ...
MaxKeys == 22
\* ... of which at most MaxOther are not the space key.
MaxOther == 2
\* Keystrokes of one menu selection.
MaxMenuKeys == 4
\* The rounds argument of a direct Animation.load call is in 1..MaxRounds.
MaxRounds == 3
\* The cursor row of the pane given to a direct Animation.load call is in 0..MaxRow.
MaxRow == 2
\* Prompts of one CLI.input call explored.
MaxPrompts == 4

-----------------------------------------------------------------------------
(* Key codes *)

ESC == 27
DELETE == 127
KEY_RIGHT == 261
KEY_LEFT == 260
ENTER == 10

\* What window.getch() hands to Editor.input: the read's failure value (-1), tab,
\* newline, escape, space, "a", delete and the left-arrow code.
Keys == {-1, 9, 10, 27, 32, 97, 127, 260}
LongKeys == {9, 27, 32}

\* What stdscr.getch() hands to Menu.select.
MenuKeys == {-1, 10, 27, 97, 260, 261}

-----------------------------------------------------------------------------
(* Python built-ins used by the code *)

\* chr(i) raises ValueError outside range(0x110000).
ChrDefined(i) == i >= 0 /\ i <= 1114111

\* chr(i), for the codes of Keys.
Chr(i) ==
    CASE i = 9 -> "\t"
      [] i = 10 -> "\n"
      [] i = 27 -> "^["
      [] i = 32 -> " "
      [] i = 97 -> "a"
      [] i = 127 -> "^?"
      [] i = 260 -> "U+0104"

\* str.isspace() of a one-character string, for the characters Chr yields.
IsSpace(c) == c \in {" ", "\t", "\n", "\r", "\f"}

\* format(n, "03"): zero-padded to three digits.
Fmt03(n) ==
    IF n < 0 THEN "-" \o (IF -n < 10 THEN "0" ELSE "") \o ToString(-n)
    ELSE IF n < 10 THEN "00" \o ToString(n)
    ELSE IF n < 100 THEN "0" \o ToString(n)
    ELSE ToString(n)

Abs(n) == IF n < 0 THEN -n ELSE n

-----------------------------------------------------------------------------
(* Animation.load *)

frames == <<"U+28FE", "U+28F7", "U+28EF", "U+28DF", "U+287F", "U+28BF", "U+28FB", "U+28FD">>

\* The number of iterations of the loop of a call with the given rounds
\* argument: range(n * 2), whatever rounds is.
LoadIterations(r) == Len(frames) * 2

\* The addstr calls of iterations i, i+1, ..., total-1, with y the captured row.
RECURSIVE LoadFrames(_, _, _)
LoadFrames(i, total, y) ==
    IF i >= total THEN <<>>
    ELSE << <<y + 1, 0, "\r" \o frames[(i % Len(frames)) + 1] \o " saving">> >>
         \o LoadFrames(i + 1, total, y)

\* The cursor row of the pane after the call: the row of the last frame drawn.
LoadCursorRow(y, fs) == IF fs = <<>> THEN y ELSE fs[Len(fs)][1]

\* The caller calls Animation.load(screen, rounds=r) on a pane whose cursor is on row y.
AnimationLoad(r, y) ==
    /\ pc = "idle"
    /\ pc' = "load_done"
    /\ cursor' = 0
    /\ rounds' = r
    /\ yx' = y
    /\ drawn' = LoadFrames(0, LoadIterations(r), y)
    /\ result' = "None"
    /\ UNCHANGED <<alive, term_restored, sessions_ended, curs_shown>>
    /\ UNCHANGED editorVars
    /\ UNCHANGED menuVars
    /\ UNCHANGED cliVars

-----------------------------------------------------------------------------
(* Editor *)

\* A variant that does not count the space on lines 141-142.
SpaceTally_none(wc, k) == wc

\* Lines 141-142: the space tally.
SpaceTally(wc, k) == IF Chr(k) = " " THEN wc + 1 ELSE wc

\* A variant without the reset of line 151.
EscapeCount_noreset(ec, k) == IF k = ESC THEN ec - 1 ELSE ec

\* Lines 143-151: escape_counter after the key.
EscapeCount(ec, k) == IF k = ESC THEN ec - 1 ELSE 3

\* A variant that lets the counter pass 0 before it breaks.
Terminates_late(k, wc, ec, tw) == k = ESC /\ (wc >= tw \/ ec < 0)

\* A variant that breaks one escape early.
Terminates_hasty(k, wc, ec, tw) == k = ESC /\ (wc >= tw \/ ec <= 1)

\* A variant that only the counter can end.
Terminates_counteronly(k, wc, ec, tw) == k = ESC /\ ec = 0

\* A variant whose threshold test is strict.
Terminates_strict(k, wc, ec, tw) == k = ESC /\ (wc > tw \/ ec = 0)

\* Lines 143-146: the break, with wc and ec as they are on line 145.
Terminates(k, wc, ec, tw) == k = ESC /\ (wc >= tw \/ ec = 0)

\* Lines 140-153: the message pane of an iteration that does not break.
EscapeMsg(k, wc, ec, tw) ==
    IF k = ESC
    THEN << <<0, 0, ToString(tw - wc) \o " more words to write", "RED">>,
            <<1, 0, "Press ESC " \o ToString(ec) \o " times to exit", "A_DIM">> >>
    ELSE <<>>

\* A variant that announces the target as soon as it is met.
TargetMsg_atleast(wc, tw) ==
    IF wc >= tw
    THEN << <<0, 0, "Target words reached!\nExit by pressing ESC", "GREEN">> >>
    ELSE <<>>

\* Lines 152-153.
TargetMsg(wc, tw) ==
    IF wc > tw
    THEN << <<0, 0, "Target words reached!\nExit by pressing ESC", "GREEN">> >>
    ELSE <<>>

\* A variant that swallows the delete code only.
Editor_print_escape(win, k) ==
    IF k = 127 THEN win ELSE Append(win, Chr(k))

\* Editor.print(key) on the text pane.
Editor_print(win, k) ==
    IF k = 127 \/ k = 27 THEN win ELSE Append(win, Chr(k))

\* The cursor row of the text pane after Editor.print(key): a newline moves it down.
CursorRow(y, k) ==
    IF k = 127 \/ k = 27 THEN y ELSE IF Chr(k) = "\n" THEN y + 1 ELSE y

\* A variant in which the delete code removes the last character of the buffer.
TextAppend_backspace(t, k) ==
    IF k # DELETE THEN Append(t, Chr(k))
    ELSE IF t = <<>> THEN t ELSE SubSeq(t, 1, Len(t) - 1)

\* A variant that keeps the escape character out of the buffer too.
TextAppend_noescape(t, k) == IF k # DELETE /\ k # ESC THEN Append(t, Chr(k)) ELSE t

\* Lines 156-157.
TextAppend(t, k) == IF k # DELETE THEN Append(t, Chr(k)) ELSE t

\* A variant without the tally of lines 159-160.
WhitespaceTally_none(wc, k) == wc

\* A variant in which the delete code takes a word back.
WhitespaceTally_delete(wc, k) ==
    IF k = DELETE /\ wc > 0 THEN wc - 1
    ELSE IF IsSpace(Chr(k)) THEN wc + 1 ELSE wc

\* Lines 159-160: the whitespace tally.
WhitespaceTally(wc, k) == IF IsSpace(Chr(k)) THEN wc + 1 ELSE wc

\* Lines 131-132 and 161-163: the counter pane.
CounterPane(wc, tw) == << Fmt03(wc) \o "/" \o Fmt03(tw) \o " words" >>

\* A variant that leaves the screen as it was.
Refresh_skipped(old, pane) == old

\* window.refresh(): the screen shows the pane's content.
Refresh(old, pane) == pane

\* The keystrokes explored (see the bounds).
NonSpace(ks) == Cardinality({i \in DOMAIN ks : ks[i] # 32})

CanType(k) ==
    \/ Len(keys) < MaxFree
    \/ /\ Len(keys) < MaxKeys
       /\ k \in LongKeys
       /\ NonSpace(Append(keys, k)) <= MaxOther

\* Editor.input, lines 94-135: up to the first blocking read.
EditorInput ==
    /\ pc = "idle"
    /\ alive
    /\ pc' = "editor_getch"
    /\ keys' = <<>>
    /\ target_words' = 20
    /\ words_count' = 0
    /\ escape_counter' = 3
    /\ text' = <<>>
    /\ win_texteditor' = <<>>
    /\ cur_y' = 0
    /\ win_counter' = CounterPane(0, 20)
    /\ win_msg' = << <<0, 0, "Press ESC " \o ToString(3) \o " times to exit", "A_DIM">> >>
    /\ shown' = [counter |-> Refresh(shown.counter, win_counter'),
                 msg |-> Refresh(shown.msg, win_msg')]
    /\ UNCHANGED <<alive, term_restored, sessions_ended, cursor, curs_shown, result>>
    /\ UNCHANGED menuVars
    /\ UNCHANGED cliVars
    /\ UNCHANGED loadVars

\* Lines 138-141 when chr(key) raises ValueError: the exception leaves Editor.input.
EditorRaise(k) ==
    /\ pc' = "editor_raised"
    /\ keys' = Append(keys, k)
    /\ win_msg' = <<>>
    /\ sessions_ended' = sessions_ended + 1
    /\ result' = "ValueError"
    /\ UNCHANGED <<alive, term_restored, cursor, curs_shown, target_words, words_count,
                   escape_counter, text, win_texteditor, cur_y, win_counter, shown>>
    /\ UNCHANGED menuVars
    /\ UNCHANGED cliVars
    /\ UNCHANGED loadVars

\* Lines 138-146 and 169-170: the break, the spinner and the return.
EditorBreak(k, wc, ec) ==
    LET fs == LoadFrames(0, LoadIterations(2), cur_y) IN
    /\ pc' = "editor_done"
    /\ keys' = Append(keys, k)
    /\ win_msg' = <<>>
    /\ words_count' = wc
    /\ escape_counter' = ec
    /\ cursor' = 0
    /\ rounds' = 2
    /\ yx' = cur_y
    /\ drawn' = fs
    /\ cur_y' = LoadCursorRow(cur_y, fs)
    /\ sessions_ended' = sessions_ended + 1
    /\ result' = [content |-> text, words_count |-> wc]
    /\ UNCHANGED <<alive, term_restored, curs_shown, target_words, text,
                   win_texteditor, win_counter, shown>>
    /\ UNCHANGED menuVars
    /\ UNCHANGED cliVars

\* Lines 138-167: an iteration that goes back to the blocking read.
EditorLoop(k, wc, ec) ==
    LET wc2 == WhitespaceTally(wc, k) IN
    /\ pc' = "editor_getch"
    /\ keys' = Append(keys, k)
    /\ escape_counter' = ec
    /\ win_msg' = EscapeMsg(k, wc, ec, target_words) \o TargetMsg(wc, target_words)
    /\ win_texteditor' = Editor_print(win_texteditor, k)
    /\ cur_y' = CursorRow(cur_y, k)
    /\ text' = TextAppend(text, k)
    /\ words_count' = wc2
    /\ win_counter' = CounterPane(wc2, target_words)
    /\ shown' = [counter |-> Refresh(shown.counter, win_counter'),
                 msg |-> Refresh(shown.msg, win_msg')]
    /\ UNCHANGED <<alive, term_restored, sessions_ended, cursor, curs_shown,
                   target_words, result>>
    /\ UNCHANGED loadVars
    /\ UNCHANGED menuVars
    /\ UNCHANGED cliVars

\* One iteration of the loop of Editor.input on the key code k.
EditorKey(k) ==
    /\ pc = "editor_getch"
    /\ CanType(k)
    /\ IF ~ChrDefined(k)
       THEN EditorRaise(k)
       ELSE LET wc == SpaceTally(words_count, k)
                ec == EscapeCount(escape_counter, k)
            IN IF Terminates(k, wc, ec, target_words)
               THEN EditorBreak(k, wc, ec)
               ELSE EditorLoop(k, wc, ec)

\* Editor.__del__: the caller drops its last reference to the Editor object.
EditorDel ==
    /\ pc \in {"idle", "editor_done", "editor_raised"}
    /\ alive
    /\ alive' = FALSE
    /\ term_restored' = term_restored + 1
    /\ UNCHANGED <<pc, sessions_ended, cursor, curs_shown, result>>
    /\ UNCHANGED editorVars
    /\ UNCHANGED menuVars
    /\ UNCHANGED cliVars
    /\ UNCHANGED loadVars

-----------------------------------------------------------------------------
(* Menu.select *)

options == [i \in {0, 1} |-> IF i = 0 THEN "note" ELSE "chat"]

\* A variant whose LEFT stops at 0 instead of wrapping.
MenuMove_clamp(p, k) ==
    IF k = KEY_RIGHT THEN (p + 1) % 2
    ELSE IF k = KEY_LEFT THEN (IF p = 0 THEN 0 ELSE p - 1)
    ELSE p

\* Lines 242-246: position after the key.
MenuMove(p, k) ==
    IF k = KEY_RIGHT THEN (p + 1) % 2
    ELSE IF k = KEY_LEFT THEN Abs((p - 1) % 2)
    ELSE p

\* A variant that never draws NOTE plain again.
Labels_sticky(p) ==
    IF p = 0 THEN [NOTE |-> "GREEN", CHAT |-> "NORMAL"]
    ELSE [NOTE |-> "GREEN", CHAT |-> "GREEN"]

\* Lines 234-235 and 249-254: the attributes the two labels are drawn with.
Labels(p) ==
    IF p = 0 THEN [NOTE |-> "GREEN", CHAT |-> "NORMAL"]
    ELSE [NOTE |-> "NORMAL", CHAT |-> "GREEN"]

\* A variant that shows the cursor again in every iteration.
MenuCursSet_each(k) == <<1>>

\* The curs_set calls made while the key is handled: line 259, after the loop.
MenuCursSet(k) == IF k = ENTER THEN <<1>> ELSE <<>>

\* Menu.select, lines 220-241: up to the first blocking read.
MenuSelect ==
    /\ pc = "idle"
    /\ pc' = "menu_getch"
    /\ cursor' = 0
    /\ position' = 0
    /\ mkeys' = <<>>
    /\ stdscr' = Labels(0)
    /\ UNCHANGED <<alive, term_restored, sessions_ended, curs_shown, result>>
    /\ UNCHANGED editorVars
    /\ UNCHANGED loadVars
    /\ UNCHANGED cliVars

\* One iteration of the loop of Menu.select on the key code k; on ENTER, the return.
MenuKey(k) ==
    LET p == MenuMove(position, k)
        cs == MenuCursSet(k)
    IN
    /\ pc = "menu_getch"
    /\ Len(mkeys) < MaxMenuKeys
    /\ mkeys' = Append(mkeys, k)
    /\ position' = p
    /\ cursor' = IF cs = <<>> THEN cursor ELSE cs[Len(cs)]
    /\ curs_shown' = curs_shown + Len(SelectSeq(cs, LAMBDA v : v = 1))
    /\ IF k = ENTER
       THEN /\ pc' = "menu_done"
            /\ result' = options[p]
            /\ UNCHANGED stdscr
       ELSE /\ pc' = "menu_getch"
            /\ stdscr' = Labels(p)
            /\ UNCHANGED result
    /\ UNCHANGED <<alive, term_restored, sessions_ended>>
    /\ UNCHANGED editorVars
    /\ UNCHANGED loadVars
    /\ UNCHANGED cliVars

-----------------------------------------------------------------------------
(* CLI.input *)

\* What the prompt can return: an empty line or a text.
Responses == {"", "hello", "exit!"}

\* "not user_input": the truth value of a string.
Falsy(str) == str = ""

\* A variant that gives up one prompt later.
CLIExhausted_late(c) == c < 0

\* Line 46: no prompt is left.
CLIExhausted(c) == c = 0

\* Lines 45-47 and 55: the loop's test after user_input and count are set; where
\* the call goes next and what it returns.
CLILoop(ui, c) ==
    IF ~Falsy(ui) THEN [pc |-> "cli_done", ret |-> ui]
    ELSE IF CLIExhausted(c) THEN [pc |-> "cli_done", ret |-> "exit!"]
    ELSE [pc |-> "cli_prompt", ret |-> "None"]

\* CLI.input, lines 31-48: up to the first prompt.
CLIInput ==
    LET go == CLILoop("", 2) IN
    /\ pc = "idle"
    /\ user_input' = ""
    /\ count' = 2
    /\ responses' = <<>>
    /\ pc' = go.pc
    /\ result' = go.ret
    /\ UNCHANGED <<alive, term_restored, sessions_ended, cursor, curs_shown>>
    /\ UNCHANGED editorVars
    /\ UNCHANGED menuVars
    /\ UNCHANGED loadVars

\* Lines 48-55: the prompt returns resp; the loop's test follows.
CLIPrompt(resp) ==
    LET go == CLILoop(resp, count - 1) IN
    /\ pc = "cli_prompt"
    /\ Len(responses) < MaxPrompts
    /\ responses' = Append(responses, resp)
    /\ user_input' = resp
    /\ count' = count - 1
    /\ pc' = go.pc
    /\ result' = go.ret
    /\ UNCHANGED <<alive, term_restored, sessions_ended, cursor, curs_shown>>
    /\ UNCHANGED editorVars
    /\ UNCHANGED menuVars
    /\ UNCHANGED loadVars

-----------------------------------------------------------------------------
(* The specification *)

Init ==
    /\ pc = "idle"
    /\ alive = TRUE
    /\ term_restored = 0
    /\ sessions_ended = 0
    /\ cursor = 1
    /\ curs_shown = 0
    /\ keys = <<>>
    /\ target_words = 0
    /\ words_count = 0
    /\ escape_counter = 0
    /\ text = <<>>
    /\ win_texteditor = <<>>
    /\ cur_y = 0
    /\ win_counter = <<>>
    /\ win_msg = <<>>
    /\ shown = [counter |-> <<>>, msg |-> <<>>]
    /\ mkeys = <<>>
    /\ position = 0
    /\ stdscr = [NOTE |-> "NORMAL", CHAT |-> "NORMAL"]
    /\ rounds = 0
    /\ yx = 0
    /\ drawn = <<>>
    /\ user_input = ""
    /\ count = 0
    /\ responses = <<>>
    /\ result = "None"

Next ==
    \/ EditorInput
    \/ \E k \in Keys : EditorKey(k)
    \/ EditorDel
    \/ MenuSelect
    \/ \E k \in MenuKeys : MenuKey(k)
    \/ \E r \in 1..MaxRounds, y \in 0..MaxRow : AnimationLoad(r, y)
    \/ CLIInput
    \/ \E resp \in Responses : CLIPrompt(resp)

Spec == Init /\ [][Next]_vars

-----------------------------------------------------------------------------
(* Properties *)

Last(s) == s[Len(s)]
Front(s) == SubSeq(s, 1, Len(s) - 1)
Range(s) == {s[i] : i \in DOMAIN s}
Decoded(ks) == [i \in DOMAIN ks |-> Chr(ks[i])]
Repeat(x, n) == [i \in 1..n |-> x]

InSession == pc \in {"editor_getch", "editor_done", "editor_raised"}

\* C1: Editor.input leaves its loop (and returns) in a step if and only if the
\* key of that step is escape and, with escape_counter just decremented,
\* words_count >= target_words or escape_counter = 0.  From the start, the first
\* two escapes do not end the session and the third does, with words_count = 0.
\* (A read that returns the failure value makes chr raise: that is no key, and
\* the session does not end by its loop's break.)
C1_EndsIffEscapeMeetsCondition ==
    [][ (pc = "editor_getch" /\ keys' # keys) =>
          /\ (pc' = "editor_done") <=>
                /\ Last(keys') = ESC
                /\ escape_counter' = escape_counter - 1
                /\ (words_count' >= target_words' \/ escape_counter' = 0)
          /\ (keys' \in {<<ESC>>, <<ESC, ESC>>} => pc' = "editor_getch")
          /\ (keys' = <<ESC, ESC, ESC>> => pc' = "editor_done" /\ words_count' = 0)
      ]_vars

C1_Witness ==
    pc = "editor_done" /\ keys = <<ESC, ESC, ESC>> /\ words_count = 0 /\ escape_counter = 0

\* C2: escape_counter is 3 when the session starts; an escape that does not end
\* the session lowers it by exactly 1 (so n < 3 escapes in a row from the start
\* leave 3 - n); every other key code sets it to 3; and as long as no escape has
\* been read it is 3.
C2_EscapeCounter ==
    [][ /\ (pc = "idle" /\ pc' = "editor_getch" => escape_counter' = 3)
        /\ (pc = "editor_getch" /\ keys' # keys =>
              /\ (Last(keys') = ESC /\ pc' = "editor_getch"
                    => escape_counter' = escape_counter - 1)
              /\ (Last(keys') # ESC /\ Last(keys') >= 0 => escape_counter' = 3)
              /\ (\A n \in 0..2 : keys' = Repeat(ESC, n) => escape_counter' = 3 - n)
              /\ (ESC \notin Range(keys') => escape_counter' = 3))
      ]_vars

C2_Witness ==
    pc = "editor_getch" /\ keys = <<ESC, ESC, 97>> /\ escape_counter = 3

\* C3: one keystroke raises words_count by 2 if it is a space, by 1 if it is a
\* tab or a newline, and by 0 otherwise (delete and escape included).
C3_WordsCountPerKey ==
    [][ (pc = "editor_getch" /\ keys' # keys) =>
          words_count' - words_count =
              (IF Last(keys') = 32 THEN 2
               ELSE IF Last(keys') \in {9, 10} THEN 1
               ELSE 0)
      ]_vars

C3_Witness ==
    pc = "editor_getch" /\ keys = <<32, 9, 97, DELETE>> /\ words_count = 3

\* C4: the returned content is the characters of the keys read before the
\* terminating escape, delete codes left out and escapes kept, in order; and 21
\* spaces followed by one escape return words_count = 42 and 21 spaces.
C4_ReturnedContent ==
    /\ pc = "editor_done" =>
          /\ Last(keys) = ESC
          /\ result.content = Decoded(SelectSeq(Front(keys), LAMBDA k : k # DELETE))
    /\ keys = Repeat(32, 21) \o <<ESC>> =>
          /\ pc = "editor_done"
          /\ result.words_count = 42
          /\ result.content = Repeat(" ", 21)

C4_Witness ==
    /\ pc = "editor_done"
    /\ keys = Repeat(32, 21) \o <<ESC>>
    /\ result = [content |-> Repeat(" ", 21), words_count |-> 42]

\* C5: the glyphs Editor.print has written to the text pane are the characters
\* of the keys read, in order, without the delete and escape codes: the buffer
\* without its escape characters.  (The spinner's frames, drawn on the same pane
\* once the loop is over, are recorded in drawn.)
C5_EchoedGlyphs ==
    InSession =>
        /\ win_texteditor =
              Decoded(SelectSeq(keys, LAMBDA k : k >= 0 /\ k # DELETE /\ k # ESC))
        /\ win_texteditor = SelectSeq(text, LAMBDA c : c # "^[")

C5_Witness ==
    pc = "editor_getch" /\ keys = <<97, ESC, DELETE, 32>> /\ win_texteditor = <<"a", " ">>

\* C6: position is 0 at the start and stays in {0, 1}; RIGHT and LEFT both flip
\* it; ENTER returns "note" for 0 and "chat" for 1 and no other key returns; any
\* other key leaves position alone.  The result is "note" exactly when the
\* number of LEFT and RIGHT keys read is even.
C6_MenuPosition ==
    [][ /\ (pc = "idle" /\ pc' = "menu_getch" => position' = 0)
        /\ (pc = "menu_getch" /\ mkeys' # mkeys =>
              LET k == Last(mkeys') IN
              /\ position' \in {0, 1}
              /\ (k \in {KEY_LEFT, KEY_RIGHT} => position' = 1 - position)
              /\ (k \notin {KEY_LEFT, KEY_RIGHT} => position' = position)
              /\ (pc' = "menu_done") <=> (k = ENTER)
              /\ (k = ENTER => result' = (IF position = 0 THEN "note" ELSE "chat"))
              /\ (k = ENTER =>
                    ((result' = "note") <=>
                       Len(SelectSeq(mkeys', LAMBDA c : c \in {KEY_LEFT, KEY_RIGHT})) % 2 = 0)))
      ]_vars

C6_Witness ==
    pc = "menu_done" /\ mkeys = <<KEY_LEFT, ENTER>> /\ result = "chat"

\* C7 (as claimed): when Editor.input has returned or raised, the terminal has
\* been restored exactly once.
C7_RestoredOnEveryExit ==
    pc \in {"editor_done", "editor_raised"} => term_restored = 1

\* C8: while Menu.select waits for a key the cursor is hidden and curs_set(1)
\* has not been called; when it has returned the cursor is visible and
\* curs_set(1) has been called exactly once.
C8_MenuCursor ==
    /\ pc = "menu_getch" => cursor = 0 /\ curs_shown = 0
    /\ pc = "menu_done" => cursor = 1 /\ curs_shown = 1

C8_Witness ==
    pc = "menu_done" /\ mkeys = <<KEY_RIGHT, 97, ENTER>> /\ cursor = 1

\* C9: within a session words_count never goes down from one step to the next,
\* and target_words is 20 from the start of the session on.
C9_Monotone ==
    [][ /\ (InSession /\ InSession' => words_count' >= words_count)
        /\ (InSession' => target_words' = 20)
      ]_vars

C9_Witness ==
    pc = "editor_getch" /\ keys = <<32, DELETE>> /\ words_count = 2 /\ target_words = 20

\* C10 (as claimed): a finished Animation.load call has drawn rounds * 8 frames,
\* frame i showing glyph i mod 8 and " saving" on the row below the captured one.
C10_RoundsTimesEightFrames ==
    pc \in {"load_done", "editor_done"} =>
        /\ Len(drawn) = rounds * 8
        /\ \A i \in DOMAIN drawn :
              drawn[i] = <<yx + 1, 0, "\r" \o frames[((i - 1) % 8) + 1] \o " saving">>

\* C11 (as claimed): no iteration of Editor.input raises, whatever code the
\* blocking read returns.
C11_NoIterationRaises ==
    pc # "editor_raised"

\* Three decimal digits of n, for 0 <= n <= 999.
Digits3(n) == ToString(n \div 100) \o ToString((n \div 10) % 10) \o ToString(n % 10)

\* C12: whenever Editor.input waits for a key, the screen shows the counter
\* pane with the current words_count and target_words, each as three digits:
\* "000/020 words" before the first key.
C12_CounterShown ==
    pc = "editor_getch" =>
        /\ shown.counter =
              << Digits3(words_count) \o "/" \o Digits3(target_words) \o " words" >>
        /\ (keys = <<>> => shown.counter = <<"000/020 words">>)

C12_Witness ==
    pc = "editor_getch" /\ words_count = 21 /\ shown.counter = <<"021/020 words">>

TargetLine == <<0, 0, "Target words reached!\nExit by pressing ESC", "GREEN">>

\* C13: in an iteration that reaches line 152 (one that neither breaks nor
\* raises), the "Target words reached!" line is rendered exactly when
\* words_count, with the space of line 142 counted and the whitespace of line
\* 160 not yet counted, is greater than target_words; when it is not rendered
\* and the key is not escape, the message pane is empty.  What is rendered is
\* what the refresh of line 166 shows.
C13_TargetLineRendered ==
    [][ (pc = "editor_getch" /\ pc' = "editor_getch" /\ keys' # keys) =>
          LET k == Last(keys')
              wc == words_count + (IF k = 32 THEN 1 ELSE 0)
          IN /\ (TargetLine \in Range(win_msg')) <=> (wc > target_words)
             /\ (k # ESC /\ TargetLine \notin Range(win_msg') => win_msg' = <<>>)
             /\ shown'.msg = win_msg'
      ]_vars

C13_Witness ==
    /\ pc = "editor_getch"
    /\ keys = Repeat(32, 11)
    /\ words_count = 22
    /\ shown.msg = <<TargetLine>>

\* C14: whenever Menu.select waits for a key, the label of the current position
\* (NOTE for 0, CHAT for 1) is the one drawn highlighted and the other is drawn
\* plain; a key other than LEFT, RIGHT and ENTER changes neither position nor
\* the labels.
C14_MenuHighlight ==
    [][ /\ (pc' = "menu_getch" =>
              stdscr' = (IF position' = 0
                         THEN [NOTE |-> "GREEN", CHAT |-> "NORMAL"]
                         ELSE [NOTE |-> "NORMAL", CHAT |-> "GREEN"]))
        /\ (pc = "menu_getch" /\ mkeys' # mkeys
              /\ Last(mkeys') \notin {KEY_LEFT, KEY_RIGHT, ENTER}
              => position' = position /\ stdscr' = stdscr)
      ]_vars

C14_Witness ==
    /\ pc = "menu_getch"
    /\ mkeys = <<KEY_RIGHT, 97>>
    /\ position = 1
    /\ stdscr = [NOTE |-> "NORMAL", CHAT |-> "GREEN"]

\* C15: whenever Editor.input waits for a key, escape_counter is 1, 2 or 3, and
\* it is 3 if the last key read was not escape.
C15_EscapeCounterRange ==
    pc = "editor_getch" =>
        /\ escape_counter \in {1, 2, 3}
        /\ (keys # <<>> /\ Last(keys) # ESC => escape_counter = 3)

C15_Witness ==
    pc = "editor_getch" /\ keys = <<ESC, 32, ESC, ESC>> /\ escape_counter = 1

\* The number of escapes at the end of ks.
RECURSIVE TrailingEsc(_)
TrailingEsc(ks) ==
    IF ks = <<>> \/ Last(ks) # ESC THEN 0 ELSE 1 + TrailingEsc(Front(ks))

\* C16: a running session never has three escapes in a row behind it (the third
\* at the latest ends it, whatever words_count is), and below the target a
\* session ends only on an escape that completes a run of three: an escape read
\* while escape_counter > 1 and words_count < target_words does not end it.
C16_ThreeEscapes ==
    [][ (pc = "editor_getch" /\ keys' # keys) =>
          /\ (pc' = "editor_getch" => TrailingEsc(keys') <= 2)
          /\ (TrailingEsc(keys') = 3 => pc' = "editor_done")
          /\ (pc' = "editor_done" /\ words_count' < target_words'
                => TrailingEsc(keys') = 3)
          /\ (Last(keys') = ESC /\ escape_counter > 1 /\ words_count < target_words
                => pc' = "editor_getch")
      ]_vars

C16_Witness ==
    pc = "editor_done" /\ keys = <<ESC, 97, ESC, ESC, ESC>> /\ words_count = 0

\* How many elements of t are in the set cs.
CountIn(t, cs) == Cardinality({i \in DOMAIN t : t[i] \in cs})

\* C17: throughout a session, and in the returned result, words_count is twice
\* the number of spaces in the buffer plus the number of its other whitespace
\* characters.
C17_TallyFromBuffer ==
    /\ InSession =>
          words_count = 2 * CountIn(text, {" "}) + CountIn(text, {"\t", "\n"})
    /\ pc = "editor_done" =>
          result.words_count = 2 * CountIn(result.content, {" "})
                                 + CountIn(result.content, {"\t", "\n"})

C17_Witness ==
    pc = "editor_getch" /\ keys = <<32, 9, DELETE, 97>> /\ words_count = 3

\* C18: a keystroke leaves the buffer as it is or appends one character to it;
\* the delete code leaves the buffer and words_count as they are and sets
\* escape_counter to 3.
C18_BufferGrows ==
    [][ (pc = "editor_getch" /\ keys' # keys) =>
          /\ \/ text' = text
             \/ Len(text') = Len(text) + 1 /\ SubSeq(text', 1, Len(text)) = text
          /\ (Last(keys') = DELETE =>
                text' = text /\ words_count' = words_count /\ escape_counter' = 3)
      ]_vars

C18_Witness ==
    /\ pc = "editor_getch"
    /\ keys = <<32, ESC, ESC, DELETE>>
    /\ text = <<" ", "^[", "^[">>
    /\ words_count = 2
    /\ escape_counter = 3

\* C19: when Editor.input waits for a key after an escape, the message pane
\* holds "{N} more words to write" and "Press ESC {c} times to exit" with
\* N = target_words - words_count >= 1 and c = escape_counter in {1, 2}; and the
\* message pane never holds both the escape lines and the target line.
C19_EscapeStatus ==
    /\ (pc = "editor_getch" /\ keys # <<>> /\ Last(keys) = ESC) =>
          \E N \in 1..target_words, c \in {1, 2} :
              /\ N = target_words - words_count
              /\ c = escape_counter
              /\ win_msg = << <<0, 0, ToString(N) \o " more words to write", "RED">>,
                              <<1, 0, "Press ESC " \o ToString(c) \o " times to exit", "A_DIM">> >>
    /\ ~ \E i, j \in DOMAIN win_msg : win_msg[i][4] = "RED" /\ win_msg[j][4] = "GREEN"
    /\ (\E i \in DOMAIN win_msg : win_msg[i][4] = "RED") =>
          pc = "editor_getch" /\ keys # <<>> /\ Last(keys) = ESC

C19_Witness ==
    /\ pc = "editor_getch"
    /\ keys = <<9>> \o Repeat(32, 9) \o <<ESC>>
    /\ win_msg = << <<0, 0, "1 more words to write", "RED">>,
                    <<1, 0, "Press ESC 2 times to exit", "A_DIM">> >>

\* C20: CLI.input prompts at most twice; it returns the first response that
\* is not empty, with no prompt after it; after two empty responses it returns
\* "exit!"; it never returns the empty string.
C20_AtMostTwoPrompts ==
    /\ Len(responses) <= 2
    /\ pc = "cli_prompt" =>
          Len(responses) <= 1 /\ \A i \in DOMAIN responses : responses[i] = ""
    /\ pc = "cli_done" =>
          /\ result # ""
          /\ responses # <<>>
          /\ \A i \in 1..(Len(responses) - 1) : responses[i] = ""
          /\ IF Last(responses) # ""
             THEN result = Last(responses)
             ELSE Len(responses) = 2 /\ result = "exit!"

C20_Witness ==
    pc = "cli_done" /\ responses = <<"", "">> /\ result = "exit!"

=============================================================================
